---- MODULE Spec2Model ----
(***************************************************************************)
(* django_otp/models.py: the DeviceManager (from_persistent_id,            *)
(* devices_for_user) and the abstract Device model (fields user, name,     *)
(* confirmed; persistent_id, import_path, generate_challenge,              *)
(* verify_token), over the tables of two concrete Device subclasses and    *)
(* the auth.User table.                                                    *)
(*                                                                         *)
(* A Python string is a sequence of tokens: "." and "/" are the separator  *)
(* characters, "0".."9" the digits, and every other token stands for a     *)
(* run of identifier characters holding neither separator.                 *)
(***************************************************************************)
EXTENDS Integers, Sequences, FiniteSets, TLC

VARIABLES
    users,   \* ids of the rows of the auth.User table
    tables,  \* tables[cls]: the stored rows of the concrete device class cls
    nextId,  \* nextId[cls]: the id the table's sequence hands out next
    last     \* the most recent call: its operation, arguments and outcome

vars == <<users, tables, nextId, last>>

\* Bounds of the model.
MaxDevices == 2  \* devices ever saved, over all device tables
MaxUsers == 2    \* rows of the auth.User table

----------------------------------------------------------------------------
\* Python values

None == [type |-> "NoneType"]
PyBool(b) == [type |-> "bool", v |-> IF b THEN 1 ELSE 0]
PyInt(n) == [type |-> "int", v |-> n]
PyStr(len) == [type |-> "str", v |-> len]      \* a string of that length
PyList(len) == [type |-> "list", v |-> len]    \* a list of that length

\* bool(x): None is false, a number is true unless zero, a container is
\* true unless empty.
bool(x) ==
    CASE x.type = "NoneType" -> FALSE
      [] x.type \in {"bool", "int"} -> x.v # 0
      [] x.type \in {"str", "list"} -> x.v > 0

\* The outcome of a call: a returned value or a raised exception.
Return(v) == [exc |-> "", val |-> v]
Raise(e) == [exc |-> e, val |-> None]

\* Python 2: StandardError is the base of the built-in errors; an exception
\* class derived from Exception directly (Django's ObjectDoesNotExist, and
\* with it every Model.DoesNotExist) is not a StandardError.
StandardErrors == {"ValueError", "ImportError", "AttributeError"}
IsStandardError(e) == e \in StandardErrors

----------------------------------------------------------------------------
\* Strings

Digits == <<"0", "1", "2", "3", "4", "5", "6", "7", "8", "9">>
DigitSet == {Digits[i] : i \in DOMAIN Digits}
DigitValue(c) == (CHOOSE i \in DOMAIN Digits : Digits[i] = c) - 1

\* '{0}'.format(n) for a non-negative integer n: its decimal digits.
RECURSIVE Str(_)
Str(n) ==
    IF n < 10 THEN <<Digits[n + 1]>>
    ELSE Str(n \div 10) \o <<Digits[(n % 10) + 1]>>

\* int(s) accepts a non-empty run of decimal digits.
IsIntLiteral(s) == Len(s) > 0 /\ \A i \in DOMAIN s : s[i] \in DigitSet
RECURSIVE int(_)
int(s) ==
    IF Len(s) = 0 THEN 0
    ELSE 10 * int(SubSeq(s, 1, Len(s) - 1)) + DigitValue(s[Len(s)])

\* s.rsplit(sep, 1): split at the last occurrence of sep, if any.
rsplit(s, sep) ==
    IF \E i \in DOMAIN s : s[i] = sep
    THEN LET k == CHOOSE i \in DOMAIN s :
                      s[i] = sep /\ \A j \in DOMAIN s : j > i => s[j] # sep
         IN <<SubSeq(s, 1, k - 1), SubSeq(s, k + 1, Len(s))>>
    ELSE <<s>>

----------------------------------------------------------------------------
\* Classes

\* The concrete subclasses of the abstract Device model.
DeviceClasses == {"DeviceA", "DeviceB"}
\* Every model class with a table and an objects manager.
ModelClasses == DeviceClasses \cup {"User"}
\* Every class a module defines; Helper is a plain class without a manager.
Classes == ModelClasses \cup {"Helper"}

PluginModule == <<"plugin", ".", "models">>
AuthModule == <<"django", ".", "contrib", ".", "auth", ".", "models">>
Modules == {PluginModule, AuthModule}

\* cls.__module__ and cls.__name__
ClassModule(cls) == IF cls = "User" THEN AuthModule ELSE PluginModule
ClassName(cls) == cls

\* Device.import_path
import_path(cls) == ClassModule(cls) \o <<".">> \o <<ClassName(cls)>>

\* Device.persistent_id joining the class and the id with the wrong separator.
persistent_id_dotted(d) == import_path(d.type) \o <<".">> \o Str(d.id)

\* Device.persistent_id
persistent_id(d) == import_path(d.type) \o <<"/">> \o Str(d.id)

\* django_otp.import_class: import the module named before the last ".",
\* then look the class up in it by the name after it.
import_class(path) ==
    LET parts == rsplit(path, ".") IN
    IF Len(parts) # 2 THEN Raise("ValueError")
    ELSE IF parts[1] \notin Modules THEN Raise("ImportError")
    ELSE IF \E c \in Classes : ClassModule(c) = parts[1] /\ <<ClassName(c)>> = parts[2]
         THEN Return(CHOOSE c \in Classes :
                         ClassModule(c) = parts[1] /\ <<ClassName(c)>> = parts[2])
         ELSE Raise("AttributeError")

----------------------------------------------------------------------------
\* Tables

Names == {"phone"}
Tokens == {"000000", "123456"}

\* BooleanField(default=False)
ConfirmedDefaultFalse == FALSE

\* BooleanField(default=True)
ConfirmedDefault == TRUE

UserRow(u) == [type |-> "User", id |-> u]

\* The rows of a model class's table.
Table(cls) == IF cls = "User" THEN {UserRow(u) : u \in users} ELSE tables[cls]

\* cls.objects.get(id=device_id)
objects_get(cls, device_id) ==
    IF cls \notin ModelClasses THEN Raise("AttributeError")
    ELSE IF ~IsIntLiteral(device_id) THEN Raise("ValueError")
    ELSE LET rows == {r \in Table(cls) : r.id = int(device_id)} IN
         IF rows = {} THEN Raise("DoesNotExist")
         ELSE Return(CHOOSE r \in rows : TRUE)

\* DeviceManager.from_persistent_id
from_persistent_id(path) ==
    LET parts == rsplit(path, "/")
        attempt ==
            IF Len(parts) # 2 THEN Raise("ValueError")
            ELSE LET imported == import_class(parts[1]) IN
                 IF imported.exc # "" THEN imported
                 ELSE objects_get(imported.val, parts[2])
    IN IF attempt.exc = "" THEN attempt
       ELSE IF IsStandardError(attempt.exc) THEN Return(None)
       ELSE attempt

\* devices_for_user filtering on the flag whatever confirmed is.
devices_for_user_always(cls, user, confirmed) ==
    {d \in tables[cls] : d.user = user /\ d.confirmed = bool(confirmed)}

\* devices_for_user testing "if confirmed:" in place of "is not None".
devices_for_user_truthy(cls, user, confirmed) ==
    LET devices == {d \in tables[cls] : d.user = user} IN
    IF bool(confirmed)
    THEN {d \in devices : d.confirmed = bool(confirmed)}
    ELSE devices

\* devices_for_user passing the test "confirmed is not None" as the flag.
devices_for_user_flag(cls, user, confirmed) ==
    LET devices == {d \in tables[cls] : d.user = user} IN
    IF confirmed # None
    THEN {d \in devices : d.confirmed = (confirmed # None)}
    ELSE devices

\* DeviceManager.devices_for_user of the manager of device class cls
devices_for_user(cls, user, confirmed) ==
    LET devices == {d \in tables[cls] : d.user = user} IN
    IF confirmed # None
    THEN {d \in devices : d.confirmed = bool(confirmed)}
    ELSE devices

\* Device.generate_challenge
generate_challenge(self) == None

\* verify_token accepting one fixed token.
verify_token_fixed(self, token) == token = "000000"

\* Device.verify_token
verify_token(self, token) == FALSE

----------------------------------------------------------------------------
\* Inputs

ConfirmedArgs ==
    {None, PyBool(TRUE), PyBool(FALSE), PyInt(0), PyInt(1),
     PyStr(0), PyStr(1), PyList(0), PyList(1)}

PathHeads ==
    {import_path(c) : c \in Classes}
        \cup {PluginModule \o <<".", "Missing">>,
              <<"nomodule", ".", "DeviceA">>,
              <<"DeviceA">>}
PathTails == {Str(n) : n \in 1..(MaxDevices + 1)} \cup {<<"x">>, <<>>}
PathInputs ==
    {h \o <<"/">> \o t : h \in PathHeads, t \in PathTails}
        \cup {import_path("DeviceA"), <<"1">>, <<>>,
              import_path("DeviceA") \o <<"/", "1", "/", "1">>,
              import_path("DeviceA") \o <<"/", "0", "1">>}

----------------------------------------------------------------------------
\* Operations

\* A device row: the automatic id, the user foreign key, name and confirmed.
DeviceRows(cls) ==
    [type : {cls}, id : 1..MaxDevices, user : 1..MaxUsers, name : Names,
     confirmed : BOOLEAN]

TypeOK ==
    /\ users \subseteq 1..MaxUsers
    /\ \A c \in DeviceClasses :
           /\ tables[c] \subseteq DeviceRows(c)
           /\ nextId[c] \in 1..(MaxDevices + 1)
           /\ \A d \in tables[c] : d.id < nextId[c] /\ d.user \in users
           /\ \A d, e \in tables[c] : d.id = e.id => d = e

Init ==
    /\ users = {}
    /\ tables = [c \in DeviceClasses |-> {}]
    /\ nextId = [c \in DeviceClasses |-> 1]
    /\ last = [op |-> "init"]

\* User.objects.create(...)
CreateUser ==
    /\ Cardinality(users) < MaxUsers
    /\ users' = users \cup {Cardinality(users) + 1}
    /\ last' = [op |-> "create_user", obj |-> UserRow(Cardinality(users) + 1)]
    /\ UNCHANGED <<tables, nextId>>

\* The number of devices saved so far, over all device tables.
Saved == (nextId["DeviceA"] - 1) + (nextId["DeviceB"] - 1)

\* cls(user=user, name=name[, confirmed=...]).save(): explicit holds the
\* confirmed keyword argument when the caller gives one.
SaveNew(cls, user, name, explicit) ==
    LET row == [type |-> cls, id |-> nextId[cls], user |-> user, name |-> name,
                confirmed |-> IF explicit = {} THEN ConfirmedDefault
                              ELSE CHOOSE b \in explicit : TRUE]
    IN /\ Saved < MaxDevices
       /\ user \in users
       /\ tables' = [tables EXCEPT ![cls] = @ \cup {row}]
       /\ nextId' = [nextId EXCEPT ![cls] = @ + 1]
       /\ last' = [op |-> "save_new", obj |-> row, explicit |-> explicit]
       /\ UNCHANGED users

\* d.confirmed = b; d.save()
SetConfirmed(d, b) ==
    LET row == [d EXCEPT !.confirmed = b] IN
    /\ d \in tables[d.type]
    /\ tables' = [tables EXCEPT ![d.type] = (@ \ {d}) \cup {row}]
    /\ last' = [op |-> "set_confirmed", obj |-> row]
    /\ UNCHANGED <<users, nextId>>

\* d.delete()
Delete(d) ==
    /\ d \in tables[d.type]
    /\ tables' = [tables EXCEPT ![d.type] = @ \ {d}]
    /\ last' = [op |-> "delete", obj |-> d]
    /\ UNCHANGED <<users, nextId>>

FromPersistentId(path) ==
    /\ last' = [op |-> "from_persistent_id", path |-> path,
                ret |-> from_persistent_id(path)]
    /\ UNCHANGED <<users, tables, nextId>>

DevicesForUser(cls, user, confirmed) ==
    /\ last' = [op |-> "devices_for_user", cls |-> cls, user |-> user,
                confirmed |-> confirmed,
                ret |-> devices_for_user(cls, user, confirmed)]
    /\ UNCHANGED <<users, tables, nextId>>

GenerateChallenge(d) ==
    /\ d \in tables[d.type]
    /\ last' = [op |-> "generate_challenge", obj |-> d,
                ret |-> generate_challenge(d)]
    /\ UNCHANGED <<users, tables, nextId>>

VerifyToken(d, token) ==
    /\ d \in tables[d.type]
    /\ last' = [op |-> "verify_token", obj |-> d, token |-> token,
                ret |-> verify_token(d, token)]
    /\ UNCHANGED <<users, tables, nextId>>

\* The stored devices of every device class.
Stored == UNION {tables[c] : c \in DeviceClasses}

\* The operations that change the tables.
Mutate ==
    \/ CreateUser
    \/ \E cls \in DeviceClasses, user \in 1..MaxUsers, name \in Names,
          explicit \in {{}, {TRUE}, {FALSE}} : SaveNew(cls, user, name, explicit)
    \/ \E d \in Stored, b \in BOOLEAN : SetConfirmed(d, b)
    \/ \E d \in Stored : Delete(d)

Lookup == \E path \in PathInputs : FromPersistentId(path)

Query ==
    \E cls \in DeviceClasses, user \in 1..MaxUsers, confirmed \in ConfirmedArgs :
        DevicesForUser(cls, user, confirmed)

Extension ==
    \/ \E d \in Stored : GenerateChallenge(d)
    \/ \E d \in Stored, token \in Tokens : VerifyToken(d, token)

Next == Mutate \/ Lookup \/ Query \/ Extension
Spec == Init /\ [][Next]_vars

\* The tables under every change, with the calls of one part of the API.
NextLookup == Mutate \/ Lookup
SpecLookup == Init /\ [][NextLookup]_vars

NextQuery == Mutate \/ Query
SpecQuery == Init /\ [][NextQuery]_vars

NextExtension == Mutate \/ Extension
SpecExtension == Init /\ [][NextExtension]_vars

----------------------------------------------------------------------------
\* Properties

Unchanged(v) == v' = v

\* C1: for every stored device d, from_persistent_id(d.persistent_id)
\* returns a device of d's class with d's id.
RoundTrip ==
    \A d \in Stored :
        LET r == from_persistent_id(persistent_id(d)) IN
        r.exc = "" /\ r.val # None /\ r.val.type = d.type /\ r.val.id = d.id

\* A lookup by the persistent id of one of two stored devices returned it.
RoundTripWitness ==
    /\ last.op = "from_persistent_id"
    /\ Cardinality(Stored) = 2
    /\ \E d \in Stored : last.path = persistent_id(d) /\ last.ret = Return(d)

\* A well formed path: the import path of a device class, "/", a decimal id
\* that no row of that class's table has.
WellFormedMissing(path) ==
    \E c \in DeviceClasses, n \in 1..(MaxDevices + 1) :
        /\ path = import_path(c) \o <<"/">> \o Str(n)
        /\ \A d \in tables[c] : d.id # n

\* C2: from_persistent_id returns None and raises nothing for a well formed
\* path whose id no stored device of the class has.
MissingRowReturnsNone ==
    last.op = "from_persistent_id" /\ WellFormedMissing(last.path)
        => last.ret = Return(None)

\* A path that cannot be decoded: no "/", or the part before the last "/" is
\* not the import path of a device class, or the part after it is no id.
Undecodable(path) ==
    LET parts == rsplit(path, "/") IN
    \/ Len(parts) # 2
    \/ parts[1] \notin {import_path(c) : c \in DeviceClasses}
    \/ ~IsIntLiteral(parts[2])

\* C3: from_persistent_id returns None and raises nothing for every path
\* that cannot be decoded.
UndecodableReturnsNone ==
    last.op = "from_persistent_id" /\ Undecodable(last.path)
        => last.ret = Return(None)

\* C3, the same with a row returned: a path naming a class that is no device
\* class never makes from_persistent_id return one of that class's rows.
UndecodableReturnsNoRow ==
    last.op = "from_persistent_id" /\ Undecodable(last.path) /\ last.ret.exc = ""
        => last.ret.val = None

\* C4: devices_for_user(user) with confirmed=None is exactly the stored
\* devices of the manager's class whose user is the given user.
AllDevicesOfUser ==
    \A c \in DeviceClasses, u \in 1..MaxUsers :
        devices_for_user(c, u, None) = {d \in Stored : d.type = c /\ d.user = u}

\* An unfiltered query returned an unconfirmed device and left out another
\* stored device.
AllDevicesOfUserWitness ==
    /\ last.op = "devices_for_user"
    /\ last.confirmed = None
    /\ \E d \in last.ret : ~d.confirmed
    /\ \E d \in Stored : d \notin last.ret
    /\ last.ret = devices_for_user(last.cls, last.user, None)

TrueArgs == {PyBool(TRUE), PyInt(1), PyStr(1), PyList(1)}
FalseArgs == {PyBool(FALSE), PyInt(0), PyStr(0), PyList(0)}

\* C5: with confirmed not None, devices_for_user is exactly the user's
\* devices of the class whose flag is the truth of confirmed: a true value
\* gives the confirmed ones, a false value other than None the unconfirmed.
FilterByTruth ==
    \A c \in DeviceClasses, u \in 1..MaxUsers :
        /\ \A a \in TrueArgs :
               devices_for_user(c, u, a)
                   = {d \in tables[c] : d.user = u /\ d.confirmed}
        /\ \A a \in FalseArgs :
               devices_for_user(c, u, a)
                   = {d \in tables[c] : d.user = u /\ ~d.confirmed}

\* A query with an empty list returned the unconfirmed device of a user who
\* also has a confirmed one.
FilterByTruthWitness ==
    /\ last.op = "devices_for_user"
    /\ last.confirmed = PyList(0)
    /\ last.ret # {}
    /\ \E d \in tables[last.cls] : d.user = last.user /\ d.confirmed /\ d \notin last.ret

\* C6: generate_challenge returns None, verify_token returns False for every
\* token, and neither changes a stored record.
ExtensionPointsAreNoOps ==
    [][/\ last'.op = "generate_challenge"
            => last'.ret = None /\ Unchanged(<<users, tables, nextId>>)
       /\ last'.op = "verify_token"
            => last'.ret = FALSE /\ Unchanged(<<users, tables, nextId>>)]_vars

\* verify_token refused a token on a stored, confirmed device.
ExtensionPointsWitness ==
    /\ last.op = "verify_token"
    /\ last.obj \in Stored
    /\ last.obj.confirmed
    /\ last.ret = FALSE

\* The device the last call saved without a confirmed value, if it saved
\* one, is among its user's confirmed devices and not the unconfirmed ones.
SavedByDefaultIsConfirmed ==
    last.op = "save_new" /\ last.explicit = {}
        => /\ last.obj \in devices_for_user(last.obj.type, last.obj.user, PyBool(TRUE))
           /\ last.obj \notin devices_for_user(last.obj.type, last.obj.user, PyBool(FALSE))

\* C7: a device saved without a confirmed value is confirmed, so it is in
\* devices_for_user(u, True) and not in devices_for_user(u, False); a device
\* becomes unconfirmed only by a save that sets confirmed to False.
ConfirmedByDefault ==
    [][/\ SavedByDefaultIsConfirmed'
       /\ \A d \in Stored' :
              ~d.confirmed /\ d \notin Stored
                  => \/ last'.op = "save_new" /\ last'.explicit = {FALSE} /\ last'.obj = d
                     \/ last'.op = "set_confirmed" /\ last'.obj = d]_vars

\* A device was just saved without a confirmed value and is among the
\* confirmed devices of its user.
ConfirmedByDefaultWitness ==
    /\ last.op = "save_new"
    /\ last.explicit = {}
    /\ last.obj \in devices_for_user(last.obj.type, last.obj.user, PyBool(TRUE))

\* C8: for every user, devices_for_user(u, True) and devices_for_user(u,
\* False) are disjoint and their union is devices_for_user(u, None).
ConfirmedPartition ==
    \A c \in DeviceClasses, u \in 1..MaxUsers :
        LET yes == devices_for_user(c, u, PyBool(TRUE))
            no == devices_for_user(c, u, PyBool(FALSE))
        IN /\ yes \cap no = {}
           /\ yes \cup no = devices_for_user(c, u, None)

\* A query ran for a user with a confirmed and an unconfirmed device.
ConfirmedPartitionWitness ==
    /\ last.op = "devices_for_user"
    /\ devices_for_user(last.cls, last.user, PyBool(TRUE)) # {}
    /\ devices_for_user(last.cls, last.user, PyBool(FALSE)) # {}

====
